---- MODULE Spec2Model ----
(***************************************************************************)
(* A model of src/lib.rs: the process-wide handle counter DB_ID, the       *)
(* Registry DATABASE_INSTANCES behind its single Mutex, and the compute    *)
(* phase of the six napi tasks (connect, get_item, set_item, get_keys,     *)
(* remove_item, close) run by the host's worker pool.                      *)
(*                                                                         *)
(* A String is a sequence of Unicode code points; what the engine stores   *)
(* is a sequence of bytes.  An Option<T> is a sequence of zero or one T.   *)
(***************************************************************************)
EXTENDS Integers, Sequences, FiniteSets, TLC

\* ------------------------------------------------------------------ bounds

\* Handles the counter may issue in one run (a guard on submitting connect).
MaxHandles == 2

\* Bits of the handle counter.  DB_ID is an AtomicU32, whose fetch_add wraps
\* at 2^32; the model keeps the wrap and narrows the width.
Width == 4

Modulus == 2 ^ Width

\* Worker threads of the host's pool that run compute phases.
Tasks == {1, 2}

\* Filesystem paths callers connect to.
Paths == {"p", "q"}

\* Keys callers use: "a", and the two-byte "é" (U+00E9).
Keys == { <<97>>, <<233>> }

\* Values callers write: the empty string and "é".
Values == { <<>>, <<233>> }

\* Prefixes callers pass to get_keys: None, Some(""), Some("a"), Some("é").
Prefixes == { <<>>, << <<>> >>, << <<97>> >>, << <<233>> >> }

\* Handle arguments callers pass: the handles a run can issue, each of them
\* unknown to the Registry before its connect and after its close.
HandleArgs == 0..(MaxHandles - 1)

\* The handles a caller closes when it keeps its first store open.
LaterHandles == 1..(Modulus - 1)

\* The worker a caller that awaits every operation keeps busy.
Awaiting == {1}

\* The narrower inputs of the concurrent runs.
FewKeys == { <<233>> }

FewValues == { <<233>> }

FewPrefixes == { <<>> }

FlagValues == {TRUE, FALSE}

KeepLogFileNums == {1}

\* Options of the concurrent runs: create_if_missing set.
CreateOptions == [create_if_missing : {TRUE}, keep_log_file_num : KeepLogFileNums]

\* ----------------------------------------------------------- pure helpers

\* One code point as UTF-8 bytes (Rust's String representation).
Utf8Char(c) ==
  IF c < 128 THEN <<c>>
  ELSE IF c < 2048 THEN <<192 + (c \div 64), 128 + (c % 64)>>
  ELSE IF c < 65536
    THEN <<224 + (c \div 4096), 128 + ((c \div 64) % 64), 128 + (c % 64)>>
    ELSE <<240 + (c \div 262144), 128 + ((c \div 4096) % 64),
           128 + ((c \div 64) % 64), 128 + (c % 64)>>

\* String -> its bytes (&String as AsRef<[u8]>, String::as_bytes).
RECURSIVE as_bytes(_)
as_bytes(s) ==
  IF s = <<>> THEN <<>> ELSE Utf8Char(Head(s)) \o as_bytes(Tail(s))

\* String::from_utf8: [ok, s]; ok is FALSE when the bytes are not valid UTF-8.
RECURSIVE from_utf8(_)
from_utf8(b) ==
  IF b = <<>> THEN [ok |-> TRUE, s |-> <<>>]
  ELSE
    LET h == Head(b)
        n == IF h < 128 THEN 1
             ELSE IF h \in 194..223 THEN 2
             ELSE IF h \in 224..239 THEN 3
             ELSE IF h \in 240..244 THEN 4
             ELSE 0
        cont == n > 0 /\ Len(b) >= n /\ \A i \in 2..n : b[i] \in 128..191
        cp == IF n = 1 THEN h
              ELSE IF n = 2 THEN (h - 192) * 64 + (b[2] - 128)
              ELSE IF n = 3
                THEN (h - 224) * 4096 + (b[2] - 128) * 64 + (b[3] - 128)
                ELSE (h - 240) * 262144 + (b[2] - 128) * 4096
                     + (b[3] - 128) * 64 + (b[4] - 128)
        scalar == /\ (n = 3 => cp >= 2048 /\ cp \notin 55296..57343)
                  /\ (n = 4 => cp >= 65536 /\ cp <= 1114111)
    IN IF ~cont \/ ~scalar THEN [ok |-> FALSE, s |-> <<>>]
       ELSE LET rest == from_utf8(SubSeq(b, n + 1, Len(b)))
            IN [ok |-> rest.ok, s |-> IF rest.ok THEN <<cp>> \o rest.s ELSE <<>>]

\* key.to_vec().into_iter().map(|c| c as char).collect(): every byte becomes
\* the code point of the same number.
BytesAsChars(b) == [i \in 1..Len(b) |-> b[i]]

\* <[u8]>::starts_with
starts_with(b, p) == Len(p) <= Len(b) /\ SubSeq(b, 1, Len(p)) = p

\* Lexicographic byte order, the engine's iteration order.
RECURSIVE BytesLess(_, _)
BytesLess(x, y) ==
  IF y = <<>> THEN FALSE
  ELSE IF x = <<>> THEN TRUE
  ELSE IF Head(x) # Head(y) THEN Head(x) < Head(y)
  ELSE BytesLess(Tail(x), Tail(y))

\* The keys of a set in ascending byte order.
RECURSIVE Ascending(_)
Ascending(S) ==
  IF S = {} THEN <<>>
  ELSE LET m == CHOOSE x \in S : \A y \in S \ {x} : BytesLess(x, y)
       IN <<m>> \o Ascending(S \ {m})

\* ------------------------------------------------------------------- state

VARIABLES
  DB_ID,               \* static DB_ID: AtomicU32
  DATABASE_INSTANCES,  \* the HashMap<u32, Database> inside the Mutex
  mutex,               \* the Mutex itself: [holder, poisoned]; holder 0 is free
  disk,                \* the engine's stores: path -> [exists, kv]
  process,             \* "running" or "aborted"
  pc,                  \* each worker's position
  task,                \* the Task each worker runs: its captured arguments, and
                       \* whether its AbortSignal has fired
  db_id,               \* ConnectTask::compute's local db_id
  result,              \* what compute produced: [kind, site, val]
  issued,              \* history: the values fetch_add returned, in order
  history,             \* history: the connects and closes completed, in order
  written,             \* history: path -> key -> value, the writes in effect
  before               \* history: the key's binding when the task's engine call ran

vars == <<DB_ID, DATABASE_INSTANCES, mutex, disk, process, pc, task, db_id,
          result, issued, history, written, before>>

EmptyMap == [x \in {} |-> <<>>]

MapPut(m, k, v) == [x \in DOMAIN m \cup {k} |-> IF x = k THEN v ELSE m[x]]

MapRemove(m, k) == [x \in DOMAIN m \ {k} |-> m[x]]

NoStore == [exists |-> FALSE, kv |-> EmptyMap]

NoTask ==
  [kind |-> "none", path |-> "", opts |-> <<>>, db_id |-> 0,
   key |-> <<>>, value |-> <<>>, prefix |-> <<>>, signal |-> FALSE]

NoResult == [kind |-> "none", site |-> "", val |-> <<>>]

Ok(v) == [kind |-> "ok", site |-> "", val |-> v]

Err(site) == [kind |-> "err", site |-> site, val |-> <<>>]

\* struct Options
Options == [create_if_missing : FlagValues, keep_log_file_num : KeepLogFileNums]

\* struct Database (the engine session is the store at filepath)
Database(path, opts) == [filepath |-> path, db_opts |-> opts]

Init ==
  /\ DB_ID = 0
  /\ DATABASE_INSTANCES = EmptyMap
  /\ mutex = [holder |-> 0, poisoned |-> FALSE]
  /\ disk = [p \in Paths |-> NoStore]
  /\ process = "running"
  /\ pc = [t \in Tasks |-> "idle"]
  /\ task = [t \in Tasks |-> NoTask]
  /\ db_id = [t \in Tasks |-> 0]
  /\ result = [t \in Tasks |-> NoResult]
  /\ issued = <<>>
  /\ history = <<>>
  /\ written = [p \in Paths |-> EmptyMap]
  /\ before = [t \in Tasks |-> <<>>]

\* ------------------------------------------------------------------ engine

\* Paths an open engine session holds: the Instances of the Registry and the
\* ones a running connect has opened and not yet inserted.
OpenPaths ==
  {DATABASE_INSTANCES[h].filepath : h \in DOMAIN DATABASE_INSTANCES}
    \cup {task[t].path :
            t \in {u \in Tasks : /\ task[u].kind = "connect"
                                 /\ pc[u] \in {"fetch_add", "lock", "insert"}}}

\* rocksdb::DB::open refuses a path another session holds, and a missing
\* store when create_if_missing is false.
DB_open_fails(path, opts) ==
  \/ path \in OpenPaths
  \/ ~disk[path].exists /\ ~opts.create_if_missing

\* db.get(key): Some(value) or None.
DB_get(kv, k) == IF k \in DOMAIN kv THEN <<kv[k]>> ELSE <<>>

\* ------------------------------------------------------------ submit/cancel

Running == process = "running"

Submit(t, op) ==
  /\ Running
  /\ pc[t] = "idle"
  /\ task' = [task EXCEPT ![t] = op]
  /\ pc' = [pc EXCEPT ![t] = "queued"]
  /\ UNCHANGED <<DB_ID, DATABASE_INSTANCES, mutex, disk, process, db_id,
                 result, issued, history, written, before>>

\* Connects not yet past fetch_add.
PendingConnects ==
  Cardinality({t \in Tasks : task[t].kind = "connect"
                             /\ pc[t] \in {"queued", "open", "fetch_add"}})

connect(t, paths, options) ==
  /\ Len(issued) + PendingConnects < MaxHandles
  /\ \E path \in paths, opts \in options :
       Submit(t, [NoTask EXCEPT !.kind = "connect", !.path = path, !.opts = opts])

\* connect in a run long enough for the counter to come round: one connect
\* more than the counter has values.
connect_past_wrap(t, paths, options) ==
  /\ Len(issued) + PendingConnects <= Modulus
  /\ \E path \in paths, opts \in options :
       Submit(t, [NoTask EXCEPT !.kind = "connect", !.path = path, !.opts = opts])

get_item(t, handles, keys) ==
  \E h \in handles, key \in keys :
    Submit(t, [NoTask EXCEPT !.kind = "get_item", !.db_id = h, !.key = key])

set_item(t, handles, keys, values) ==
  \E h \in handles, key \in keys, value \in values :
    Submit(t, [NoTask EXCEPT !.kind = "set_item", !.db_id = h, !.key = key,
                             !.value = value])

get_keys(t, handles, prefixes) ==
  \E h \in handles, prefix \in prefixes :
    Submit(t, [NoTask EXCEPT !.kind = "get_keys", !.db_id = h, !.prefix = prefix])

remove_item(t, handles, keys) ==
  \E h \in handles, key \in keys :
    Submit(t, [NoTask EXCEPT !.kind = "remove_item", !.db_id = h, !.key = key])

close(t, handles) ==
  \E h \in handles :
    Submit(t, [NoTask EXCEPT !.kind = "close", !.db_id = h])

\* The abort signal fires while the task is still queued: compute never runs.
Cancel(t) ==
  /\ Running
  /\ pc[t] = "queued"
  /\ pc' = [pc EXCEPT ![t] = "done"]
  /\ result' = [result EXCEPT ![t] = [NoResult EXCEPT !.kind = "cancelled"]]
  /\ task' = [task EXCEPT ![t].signal = TRUE]
  /\ UNCHANGED <<DB_ID, DATABASE_INSTANCES, mutex, disk, process, db_id,
                 issued, history, written, before>>

\* A worker thread picks the task up and enters compute.
StartCompute(t) ==
  /\ Running
  /\ pc[t] = "queued"
  /\ pc' = [pc EXCEPT ![t] = IF task[t].kind = "connect" THEN "open" ELSE "lock"]
  /\ UNCHANGED <<DB_ID, DATABASE_INSTANCES, mutex, disk, process, task, db_id,
                 result, issued, history, written, before>>

\* resolve hands the output back; the worker is free again.
Resolve(t) ==
  /\ Running
  /\ pc[t] = "done"
  /\ pc' = [pc EXCEPT ![t] = "idle"]
  /\ task' = [task EXCEPT ![t] = NoTask]
  /\ result' = [result EXCEPT ![t] = NoResult]
  /\ before' = [before EXCEPT ![t] = <<>>]
  /\ UNCHANGED <<DB_ID, DATABASE_INSTANCES, mutex, disk, process, db_id,
                 issued, history, written>>

\* An abort signal that stops a running compute where it stands: the task is
\* reported as cancelled and the lock it holds is let go.
CancelRunning_Interrupts(t) ==
  /\ Running
  /\ pc[t] \in {"open", "fetch_add", "lock", "insert", "get", "call", "return",
                "remove", "done"}
  /\ ~task[t].signal
  /\ task' = [task EXCEPT ![t].signal = TRUE]
  /\ pc' = [pc EXCEPT ![t] = "done"]
  /\ result' = [result EXCEPT ![t] = [NoResult EXCEPT !.kind = "cancelled"]]
  /\ mutex' = IF mutex.holder = t THEN [mutex EXCEPT !.holder = 0] ELSE mutex
  /\ UNCHANGED <<DB_ID, DATABASE_INSTANCES, disk, process, db_id, issued,
                 history, written, before>>

\* The abort signal fires after a worker has picked the task up: the work can
\* no longer be taken off the queue, compute runs on and its output is
\* handed back as if no signal had come.
CancelRunning(t) ==
  /\ Running
  /\ pc[t] \in {"open", "fetch_add", "lock", "insert", "get", "call", "return",
                "remove", "done"}
  /\ ~task[t].signal
  /\ task' = [task EXCEPT ![t].signal = TRUE]
  /\ UNCHANGED <<DB_ID, DATABASE_INSTANCES, mutex, disk, process, pc, db_id,
                 result, issued, history, written, before>>

\* ------------------------------------------------------------------- panic

\* A panic whose unwinding releases the lock as a normal return does.
Panic_Unpoisoned(t, site, holding) ==
  /\ result' = [result EXCEPT ![t] = [NoResult EXCEPT !.kind = "panic", !.site = site]]
  /\ \/ /\ process' = "aborted"
        /\ pc' = [pc EXCEPT ![t] = "aborted"]
        /\ UNCHANGED mutex
     \/ /\ UNCHANGED process
        /\ pc' = [pc EXCEPT ![t] = "done"]
        /\ mutex' = IF holding THEN [mutex EXCEPT !.holder = 0] ELSE mutex

\* An unwrap() fails inside compute.  Unwinding drops the MutexGuard, which
\* poisons the Mutex; the panic then reaches the extern "C" frame that called
\* compute, where the build either aborts the process or the unwinding is
\* stopped and the task is reported as failed.
Panic(t, site, holding) ==
  /\ result' = [result EXCEPT ![t] = [NoResult EXCEPT !.kind = "panic", !.site = site]]
  /\ \/ /\ process' = "aborted"
        /\ pc' = [pc EXCEPT ![t] = "aborted"]
        /\ UNCHANGED mutex
     \/ /\ UNCHANGED process
        /\ pc' = [pc EXCEPT ![t] = "done"]
        /\ mutex' = IF holding THEN [holder |-> 0, poisoned |-> TRUE] ELSE mutex

\* ----------------------------------------------------------- compute steps

\* A lock that does not wait for its holder to let go.
Lock_NoWait(t, next) ==
  /\ Running
  /\ pc[t] = "lock"
  /\ IF mutex.poisoned
       THEN Panic(t, "lock", FALSE)
       ELSE /\ mutex' = [mutex EXCEPT !.holder = t]
            /\ pc' = [pc EXCEPT ![t] = next]
            /\ UNCHANGED <<process, result>>
  /\ UNCHANGED <<DB_ID, DATABASE_INSTANCES, disk, task, db_id, issued,
                 history, written, before>>

\* let dbs = DATABASE_INSTANCES.lock().unwrap(): blocks while another task
\* holds the Mutex; a poisoned Mutex yields Err and the unwrap panics (the
\* guard inside the error is dropped, so the Mutex is free again).
Lock(t, next) ==
  /\ Running
  /\ pc[t] = "lock"
  /\ mutex.holder = 0
  /\ IF mutex.poisoned
       THEN Panic(t, "lock", FALSE)
       ELSE /\ mutex' = [mutex EXCEPT !.holder = t]
            /\ pc' = [pc EXCEPT ![t] = next]
            /\ UNCHANGED <<process, result>>
  /\ UNCHANGED <<DB_ID, DATABASE_INSTANCES, disk, task, db_id, issued,
                 history, written, before>>

\* let db = dbs.get(&self.db_id).unwrap(): panics, holding the guard, when
\* the handle is not in the Registry.
Get(t, next) ==
  /\ Running
  /\ pc[t] = "get"
  /\ IF task[t].db_id \in DOMAIN DATABASE_INSTANCES
       THEN /\ pc' = [pc EXCEPT ![t] = next]
            /\ UNCHANGED <<mutex, process, result>>
       ELSE Panic(t, "dbs.get", TRUE)
  /\ UNCHANGED <<DB_ID, DATABASE_INSTANCES, disk, task, db_id, issued,
                 history, written, before>>

\* compute returns: the guard goes out of scope and the Mutex is released.
Return(t) ==
  /\ Running
  /\ pc[t] = "return"
  /\ mutex' = [mutex EXCEPT !.holder = 0]
  /\ pc' = [pc EXCEPT ![t] = "done"]
  /\ UNCHANGED <<DB_ID, DATABASE_INSTANCES, disk, process, task, db_id,
                 result, issued, history, written, before>>

\* The store of the Instance the task's handle resolves to.
Path(t) == DATABASE_INSTANCES[task[t].db_id].filepath

\* The value written under key at path and still in effect, as an Option.
Binding(path, key) ==
  IF key \in DOMAIN written[path] THEN <<written[path][key]>> ELSE <<>>

\* -- ConnectTask::compute

\* rocksdb::DB::open(&db_opts, &self.path).unwrap()
ConnectOpen(t) ==
  /\ Running
  /\ pc[t] = "open"
  /\ \E fault \in FlagValues :
       IF fault \/ DB_open_fails(task[t].path, task[t].opts)
         THEN /\ Panic(t, "DB::open", FALSE)
              /\ UNCHANGED disk
         ELSE /\ disk' = [disk EXCEPT ![task[t].path] =
                            IF @.exists THEN @ ELSE [exists |-> TRUE, kv |-> EmptyMap]]
              /\ pc' = [pc EXCEPT ![t] = "fetch_add"]
              /\ UNCHANGED <<mutex, process, result>>
  /\ UNCHANGED <<DB_ID, DATABASE_INSTANCES, task, db_id, issued, history,
                 written, before>>

\* A counter that is read and not advanced.
fetch_add_forgotten(v) == v

\* The counter after DB_ID.fetch_add(1, Ordering::Relaxed).
fetch_add(v) == (v + 1) % Modulus

\* let db_id = DB_ID.fetch_add(1, Ordering::Relaxed)
ConnectFetchAdd(t) ==
  /\ Running
  /\ pc[t] = "fetch_add"
  /\ db_id' = [db_id EXCEPT ![t] = DB_ID]
  /\ DB_ID' = fetch_add(DB_ID)
  /\ issued' = Append(issued, DB_ID)
  /\ pc' = [pc EXCEPT ![t] = "lock"]
  /\ UNCHANGED <<DATABASE_INSTANCES, mutex, disk, process, task, result,
                 history, written, before>>

\* dbs.insert(db_id, db_instance); Ok(db_id)
ConnectInsert(t) ==
  /\ Running
  /\ pc[t] = "insert"
  /\ DATABASE_INSTANCES' =
       MapPut(DATABASE_INSTANCES, db_id[t], Database(task[t].path, task[t].opts))
  /\ result' = [result EXCEPT ![t] = Ok(<<db_id[t]>>)]
  /\ history' = Append(history, [op |-> "connect", h |-> db_id[t]])
  /\ db_id' = [db_id EXCEPT ![t] = 0]
  /\ mutex' = [mutex EXCEPT !.holder = 0]
  /\ pc' = [pc EXCEPT ![t] = "done"]
  /\ UNCHANGED <<DB_ID, disk, process, task, issued, written, before>>

ConnectTask_compute(t) ==
  /\ task[t].kind = "connect"
  /\ \/ ConnectOpen(t)
     \/ ConnectFetchAdd(t)
     \/ Lock(t, "insert")
     \/ ConnectInsert(t)

\* -- GetItemTask::compute

\* The Some arm decodes the value as get_keys decodes keys, byte by byte.
GetItemOutput_ByteChars(got) ==
  IF got = <<>> THEN Ok(<<>>) ELSE Ok(<<BytesAsChars(got[1])>>)

\* The None arm yields an empty string.
GetItemOutput_EmptyForNone(got) ==
  IF got = <<>> THEN Ok(<< <<>> >>)
  ELSE IF from_utf8(got[1]).ok THEN Ok(<<from_utf8(got[1]).s>>)
  ELSE [NoResult EXCEPT !.kind = "panic", !.site = "from_utf8"]

\* The arms Ok(Some(value)) and Ok(None) of the match: the output, or the
\* panic of String::from_utf8(value).unwrap().
GetItemOutput(got) ==
  IF got = <<>> THEN Ok(<<>>)
  ELSE IF from_utf8(got[1]).ok THEN Ok(<<from_utf8(got[1]).s>>)
  ELSE [NoResult EXCEPT !.kind = "panic", !.site = "from_utf8"]

\* match db.db.get(&self.key) { ... }
GetItemMatch(t) ==
  /\ Running
  /\ pc[t] = "call"
  /\ \E fault \in FlagValues :
       LET out == GetItemOutput(DB_get(disk[Path(t)].kv, as_bytes(task[t].key)))
       IN IF fault
            THEN /\ result' = [result EXCEPT ![t] = Err("db.get")]
                 /\ pc' = [pc EXCEPT ![t] = "return"]
                 /\ UNCHANGED <<mutex, process>>
          ELSE IF out.kind = "panic"
            THEN Panic(t, out.site, TRUE)
            ELSE /\ result' = [result EXCEPT ![t] = out]
                 /\ pc' = [pc EXCEPT ![t] = "return"]
                 /\ UNCHANGED <<mutex, process>>
  /\ before' = [before EXCEPT ![t] = Binding(Path(t), task[t].key)]
  /\ UNCHANGED <<DB_ID, DATABASE_INSTANCES, disk, task, db_id, issued,
                 history, written>>

GetItemTask_compute(t) ==
  /\ task[t].kind = "get_item"
  /\ \/ Lock(t, "get")
     \/ Get(t, "call")
     \/ GetItemMatch(t)
     \/ Return(t)

\* -- SetItemTask::compute

\* put with its arguments swapped: the value becomes the key.
SetItemPut_Swapped(t) ==
  /\ Running
  /\ pc[t] = "call"
  /\ \E fault \in FlagValues :
       IF fault
         THEN /\ Panic(t, "db.put", TRUE)
              /\ UNCHANGED <<disk, written, before>>
         ELSE /\ disk' = [disk EXCEPT ![Path(t)].kv =
                            MapPut(@, as_bytes(task[t].value), as_bytes(task[t].key))]
              /\ written' = [written EXCEPT ![Path(t)] =
                               MapPut(@, task[t].key, task[t].value)]
              /\ before' = [before EXCEPT ![t] = Binding(Path(t), task[t].key)]
              /\ result' = [result EXCEPT ![t] = Ok(<<>>)]
              /\ pc' = [pc EXCEPT ![t] = "return"]
              /\ UNCHANGED <<mutex, process>>
  /\ UNCHANGED <<DB_ID, DATABASE_INSTANCES, task, db_id, issued, history>>

\* db.db.put(&self.key, &self.value).unwrap(); Ok(())
SetItemPut(t) ==
  /\ Running
  /\ pc[t] = "call"
  /\ \E fault \in FlagValues :
       IF fault
         THEN /\ Panic(t, "db.put", TRUE)
              /\ UNCHANGED <<disk, written, before>>
         ELSE /\ disk' = [disk EXCEPT ![Path(t)].kv =
                            MapPut(@, as_bytes(task[t].key), as_bytes(task[t].value))]
              /\ written' = [written EXCEPT ![Path(t)] =
                               MapPut(@, task[t].key, task[t].value)]
              /\ before' = [before EXCEPT ![t] = Binding(Path(t), task[t].key)]
              /\ result' = [result EXCEPT ![t] = Ok(<<>>)]
              /\ pc' = [pc EXCEPT ![t] = "return"]
              /\ UNCHANGED <<mutex, process>>
  /\ UNCHANGED <<DB_ID, DATABASE_INSTANCES, task, db_id, issued, history>>

SetItemTask_compute(t) ==
  /\ task[t].kind = "set_item"
  /\ \/ Lock(t, "get")
     \/ Get(t, "call")
     \/ SetItemPut(t)
     \/ Return(t)

\* -- GetKeysTask::compute

\* for item in iter { ... }: every key of the store in the engine's order; a
\* key that does not start with the prefix is skipped (continue), the others
\* are pushed, each byte as one char.
RECURSIVE ScanKeys(_, _, _)
ScanKeys(items, prefix, keys) ==
  IF items = <<>> THEN keys
  ELSE LET key == Head(items)
       IN IF prefix # <<>> /\ ~starts_with(key, as_bytes(prefix[1]))
            THEN ScanKeys(Tail(items), prefix, keys)
            ELSE ScanKeys(Tail(items), prefix, Append(keys, BytesAsChars(key)))

\* db.db.iterator(IteratorMode::Start) and the loop over it
GetKeysScan(t) ==
  /\ Running
  /\ pc[t] = "call"
  /\ \E fault \in FlagValues :
       result' = [result EXCEPT ![t] =
         IF fault THEN Err("db.iterator")
         ELSE Ok(ScanKeys(Ascending(DOMAIN disk[Path(t)].kv), task[t].prefix, <<>>))]
  /\ pc' = [pc EXCEPT ![t] = "return"]
  /\ UNCHANGED <<DB_ID, DATABASE_INSTANCES, mutex, disk, process, task, db_id,
                 issued, history, written, before>>

GetKeysTask_compute(t) ==
  /\ task[t].kind = "get_keys"
  /\ \/ Lock(t, "get")
     \/ Get(t, "call")
     \/ GetKeysScan(t)
     \/ Return(t)

\* -- RemoveItemTask::compute

\* A remove that looks the key up first and reports a missing key as an error.
RemoveItemDelete_MustExist(t) ==
  /\ Running
  /\ pc[t] = "call"
  /\ \E fault \in FlagValues :
       IF fault
         THEN /\ Panic(t, "db.delete", TRUE)
              /\ UNCHANGED <<disk, written, before>>
         ELSE /\ disk' = [disk EXCEPT ![Path(t)].kv = MapRemove(@, as_bytes(task[t].key))]
              /\ written' = [written EXCEPT ![Path(t)] = MapRemove(@, task[t].key)]
              /\ before' = [before EXCEPT ![t] = Binding(Path(t), task[t].key)]
              /\ result' = [result EXCEPT ![t] =
                              IF as_bytes(task[t].key) \in DOMAIN disk[Path(t)].kv
                                THEN Ok(<<>>) ELSE Err("key not found")]
              /\ pc' = [pc EXCEPT ![t] = "return"]
              /\ UNCHANGED <<mutex, process>>
  /\ UNCHANGED <<DB_ID, DATABASE_INSTANCES, task, db_id, issued, history>>

\* db.db.delete(&self.key).unwrap(); Ok(())
RemoveItemDelete(t) ==
  /\ Running
  /\ pc[t] = "call"
  /\ \E fault \in FlagValues :
       IF fault
         THEN /\ Panic(t, "db.delete", TRUE)
              /\ UNCHANGED <<disk, written, before>>
         ELSE /\ disk' = [disk EXCEPT ![Path(t)].kv = MapRemove(@, as_bytes(task[t].key))]
              /\ written' = [written EXCEPT ![Path(t)] = MapRemove(@, task[t].key)]
              /\ before' = [before EXCEPT ![t] = Binding(Path(t), task[t].key)]
              /\ result' = [result EXCEPT ![t] = Ok(<<>>)]
              /\ pc' = [pc EXCEPT ![t] = "return"]
              /\ UNCHANGED <<mutex, process>>
  /\ UNCHANGED <<DB_ID, DATABASE_INSTANCES, task, db_id, issued, history>>

RemoveItemTask_compute(t) ==
  /\ task[t].kind = "remove_item"
  /\ \/ Lock(t, "get")
     \/ Get(t, "call")
     \/ RemoveItemDelete(t)
     \/ Return(t)

\* -- CloseTask::compute

\* A close that gives up when destroy fails: it reports the failure and
\* leaves the Instance in the Registry.
CloseDestroy_KeepOnFailure(t) ==
  /\ Running
  /\ pc[t] = "call"
  /\ \E destroyed \in FlagValues :
       IF destroyed
         THEN /\ disk' = [disk EXCEPT ![Path(t)] = NoStore]
              /\ written' = [written EXCEPT ![Path(t)] = EmptyMap]
              /\ pc' = [pc EXCEPT ![t] = "remove"]
              /\ UNCHANGED <<mutex, result>>
         ELSE /\ result' = [result EXCEPT ![t] = Err("DB::destroy")]
              /\ mutex' = [mutex EXCEPT !.holder = 0]
              /\ pc' = [pc EXCEPT ![t] = "done"]
              /\ UNCHANGED <<disk, written>>
  /\ UNCHANGED <<DB_ID, DATABASE_INSTANCES, process, task, db_id, issued,
                 history, before>>

\* let _ = rocksdb::DB::destroy(&db.db_opts, &db.filepath): the engine either
\* removes the store or reports a failure, which is discarded.
CloseDestroy(t) ==
  /\ Running
  /\ pc[t] = "call"
  /\ \E destroyed \in FlagValues :
       IF destroyed
         THEN /\ disk' = [disk EXCEPT ![Path(t)] = NoStore]
              /\ written' = [written EXCEPT ![Path(t)] = EmptyMap]
         ELSE UNCHANGED <<disk, written>>
  /\ pc' = [pc EXCEPT ![t] = "remove"]
  /\ UNCHANGED <<DB_ID, DATABASE_INSTANCES, mutex, process, task, db_id,
                 result, issued, history, before>>

\* A close that empties the Registry instead of removing its own entry.
CloseRemove_Clear(t) ==
  /\ Running
  /\ pc[t] = "remove"
  /\ DATABASE_INSTANCES' = EmptyMap
  /\ history' = Append(history, [op |-> "close", h |-> task[t].db_id])
  /\ result' = [result EXCEPT ![t] = Ok(<<>>)]
  /\ mutex' = [mutex EXCEPT !.holder = 0]
  /\ pc' = [pc EXCEPT ![t] = "done"]
  /\ UNCHANGED <<DB_ID, disk, process, task, db_id, issued, written, before>>

\* dbs.remove(&self.db_id); Ok(())
CloseRemove(t) ==
  /\ Running
  /\ pc[t] = "remove"
  /\ DATABASE_INSTANCES' = MapRemove(DATABASE_INSTANCES, task[t].db_id)
  /\ history' = Append(history, [op |-> "close", h |-> task[t].db_id])
  /\ result' = [result EXCEPT ![t] = Ok(<<>>)]
  /\ mutex' = [mutex EXCEPT !.holder = 0]
  /\ pc' = [pc EXCEPT ![t] = "done"]
  /\ UNCHANGED <<DB_ID, disk, process, task, db_id, issued, written, before>>

CloseTask_compute(t) ==
  /\ task[t].kind = "close"
  /\ \/ Lock(t, "get")
     \/ Get(t, "call")
     \/ CloseDestroy(t)
     \/ CloseRemove(t)

\* ------------------------------------------------------------ specification

\* The dispatcher's part in a task: start, cancel, hand the output back.
Dispatch(t) ==
  \/ Cancel(t)
  \/ StartCompute(t)
  \/ Resolve(t)

\* One caller that awaits each operation before it issues the next.
Next ==
  \E t \in Awaiting :
    \/ connect(t, Paths, Options)
    \/ get_item(t, HandleArgs, Keys)
    \/ set_item(t, HandleArgs, Keys, Values)
    \/ get_keys(t, HandleArgs, Prefixes)
    \/ remove_item(t, HandleArgs, Keys)
    \/ close(t, HandleArgs)
    \/ Dispatch(t)
    \/ ConnectTask_compute(t)
    \/ GetItemTask_compute(t)
    \/ SetItemTask_compute(t)
    \/ GetKeysTask_compute(t)
    \/ RemoveItemTask_compute(t)
    \/ CloseTask_compute(t)

Spec == Init /\ [][Next]_vars

\* Callers that issue operations without awaiting: tasks run concurrently.
NextConcurrent ==
  \E t \in Tasks :
    \/ connect(t, Paths, CreateOptions)
    \/ get_item(t, HandleArgs, FewKeys)
    \/ set_item(t, HandleArgs, FewKeys, FewValues)
    \/ get_keys(t, HandleArgs, FewPrefixes)
    \/ remove_item(t, HandleArgs, FewKeys)
    \/ close(t, HandleArgs)
    \/ Dispatch(t)
    \/ ConnectTask_compute(t)
    \/ GetItemTask_compute(t)
    \/ SetItemTask_compute(t)
    \/ GetKeysTask_compute(t)
    \/ RemoveItemTask_compute(t)
    \/ CloseTask_compute(t)

SpecConcurrent == Init /\ [][NextConcurrent]_vars

\* Callers that connect and close without awaiting.
NextLifecycle ==
  \E t \in Tasks :
    \/ connect(t, Paths, Options)
    \/ close(t, HandleArgs)
    \/ Dispatch(t)
    \/ ConnectTask_compute(t)
    \/ CloseTask_compute(t)

SpecLifecycle == Init /\ [][NextLifecycle]_vars

\* Callers that connect and write without awaiting.
NextWriters ==
  \E t \in Tasks :
    \/ connect(t, Paths, CreateOptions)
    \/ set_item(t, HandleArgs, Keys, FewValues)
    \/ remove_item(t, HandleArgs, Keys)
    \/ Dispatch(t)
    \/ ConnectTask_compute(t)
    \/ SetItemTask_compute(t)
    \/ RemoveItemTask_compute(t)

SpecWriters == Init /\ [][NextWriters]_vars

\* Callers that connect, write, remove and read without awaiting.
NextReaders ==
  \E t \in Tasks :
    \/ connect(t, Paths, CreateOptions)
    \/ set_item(t, HandleArgs, FewKeys, FewValues)
    \/ get_item(t, HandleArgs, FewKeys)
    \/ get_keys(t, HandleArgs, FewPrefixes)
    \/ remove_item(t, HandleArgs, FewKeys)
    \/ Dispatch(t)
    \/ ConnectTask_compute(t)
    \/ SetItemTask_compute(t)
    \/ GetItemTask_compute(t)
    \/ GetKeysTask_compute(t)
    \/ RemoveItemTask_compute(t)

SpecReaders == Init /\ [][NextReaders]_vars

\* One caller that keeps its first store open and connects and closes until
\* the counter has wrapped.
NextWrap ==
  \E t \in Awaiting :
    \/ connect_past_wrap(t, Paths, CreateOptions)
    \/ close(t, LaterHandles)
    \/ Dispatch(t)
    \/ ConnectTask_compute(t)
    \/ CloseTask_compute(t)

SpecWrap == Init /\ [][NextWrap]_vars

\* One caller whose abort signals may fire at any time.
NextCancel ==
  \E t \in Awaiting :
    \/ connect(t, Paths, CreateOptions)
    \/ set_item(t, HandleArgs, FewKeys, FewValues)
    \/ close(t, HandleArgs)
    \/ Dispatch(t)
    \/ CancelRunning(t)
    \/ ConnectTask_compute(t)
    \/ SetItemTask_compute(t)
    \/ CloseTask_compute(t)

SpecCancel == Init /\ [][NextCancel]_vars

\* ------------------------------------------------------------------ claims

\* The handles of the completed operations of one kind, in order.
RECURSIVE HandlesOf(_, _)
HandlesOf(h, op) ==
  IF h = <<>> THEN <<>>
  ELSE (IF Head(h).op = op THEN <<Head(h).h>> ELSE <<>>) \o HandlesOf(Tail(h), op)

Returned == HandlesOf(history, "connect")

Closed == {history[i].h : i \in {j \in 1..Len(history) : history[j].op = "close"}}

\* The engine reported a failure of the call itself (an I/O error).
EngineFailed(r) ==
  r.kind \in {"err", "panic"}
    /\ r.site \in {"DB::open", "db.get", "db.put", "db.delete", "db.iterator"}

\* Task t takes its engine-call step.
Calls(t, kind) == task[t].kind = kind /\ pc[t] = "call" /\ pc'[t] # "call"

\* C1: an operation whose handle is not in the Registry fails with an
\* UnknownHandle error returned to the caller and changes nothing: not the
\* Registry, the counter, any store, nor the running process.
C1_UnknownHandleIsAnError ==
  [][\A t \in Tasks :
       (pc[t] = "get" /\ pc'[t] # "get"
          /\ task[t].db_id \notin DOMAIN DATABASE_INSTANCES)
       => /\ result'[t] = Err("UnknownHandle")
          /\ UNCHANGED <<DATABASE_INSTANCES, DB_ID, disk, process>>]_vars

C3_WriteThenRead ==
  [][\A t \in Tasks :
       (Calls(t, "get_item") /\ ~EngineFailed(result'[t])
          /\ task[t].key \in DOMAIN written[Path(t)])
       => /\ pc'[t] = "return"
          /\ result'[t] = Ok(<<written[Path(t)][task[t].key]>>)]_vars

\* C3 witness: a get_item returned the two-byte value "é" that a set_item
\* had written under its key.
C3_ReadBackWritten ==
  \E t \in Tasks :
    /\ task[t].kind = "get_item" /\ pc[t] = "done"
    /\ before[t] = << <<233>> >>
    /\ result[t] = Ok(<< <<233>> >>)

\* C4: close(h) removes all stored data of h's path, so that a later connect
\* at that path finds no key.
C4_CloseRemovesData ==
  [][\A t \in Tasks :
       (task[t].kind = "close" /\ pc[t] = "remove" /\ pc'[t] = "done")
       => DOMAIN disk'[Path(t)].kv = {}]_vars

\* Strings in the ascending byte order of their UTF-8 form.
RECURSIVE AscendingStrings(_)
AscendingStrings(S) ==
  IF S = {} THEN <<>>
  ELSE LET m == CHOOSE x \in S :
                  \A y \in S \ {x} : BytesLess(as_bytes(x), as_bytes(y))
       IN <<m>> \o AscendingStrings(S \ {m})

\* The keys in effect at path that begin with the prefix, in ascending order.
KeysInEffect(path, prefix) ==
  AscendingStrings({k \in DOMAIN written[path] :
                      prefix = <<>> \/ starts_with(as_bytes(k), as_bytes(prefix[1]))})

\* C5: a get_keys whose scan succeeds returns each key present in the store
\* once, in ascending byte order, restricted to the keys that begin with the
\* prefix when one is given.
C5_GetKeysReturnsTheKeys ==
  \A t \in Tasks :
    (task[t].kind = "get_keys" /\ pc[t] = "return" /\ result[t].kind = "ok")
    => result[t].val = KeysInEffect(Path(t), task[t].prefix)

\* C6: a get_item(h, k) whose read succeeds, for a key with no write in effect
\* (never written, or removed since), returns the not-found outcome: a
\* success, and an outcome no present key yields, its value empty or not.
C6_AbsentKeyIsNotFound ==
  [][\A t \in Tasks :
       (Calls(t, "get_item") /\ ~EngineFailed(result'[t]))
       => /\ pc'[t] = "return"
          /\ result'[t].kind = "ok"
          /\ (result'[t].val = <<>>) <=> (task[t].key \notin DOMAIN written[Path(t)])]_vars

\* C6 witness: in one store a get_item found nothing under its key while
\* another key is bound to the empty string.
C6_NotFoundBesideEmptyValue ==
  \E t \in Tasks :
    /\ task[t].kind = "get_item" /\ pc[t] = "return"
    /\ before[t] = <<>>
    /\ result[t] = Ok(<<>>)
    /\ \E k \in DOMAIN written[Path(t)] : written[Path(t)][k] = <<>>

\* C7: a remove_item(h, k) whose delete the engine carries out, for a key
\* absent from h's store, completes without error and leaves every store
\* and the Registry as they were.
C7_RemoveAbsentKey ==
  [][\A t \in Tasks :
       (Calls(t, "remove_item") /\ ~EngineFailed(result'[t])
          /\ as_bytes(task[t].key) \notin DOMAIN disk[Path(t)].kv)
       => /\ pc'[t] = "return"
          /\ result'[t] = Ok(<<>>)
          /\ UNCHANGED <<disk, DATABASE_INSTANCES>>]_vars

\* C7 witness: a remove_item of a key that was absent completed, in a store
\* that holds another key.
C7_RemovedAbsentKey ==
  \E t \in Tasks :
    /\ task[t].kind = "remove_item" /\ pc[t] = "done"
    /\ before[t] = <<>>
    /\ result[t] = Ok(<<>>)
    /\ task[t].db_id \in DOMAIN DATABASE_INSTANCES
    /\ DOMAIN disk[Path(t)].kv # {}

\* A task inside its compute phase.
InCompute(t) ==
  pc[t] \in {"open", "fetch_add", "lock", "insert", "get", "call", "return", "remove"}

\* The next step of the compute phase of the task t runs.
Compute(t) ==
  \/ ConnectTask_compute(t)
  \/ GetItemTask_compute(t)
  \/ SetItemTask_compute(t)
  \/ GetKeysTask_compute(t)
  \/ RemoveItemTask_compute(t)
  \/ CloseTask_compute(t)

\* C8: deadlock freedom: while every engine call made so far has returned
\* without a failure, in no reachable state are all the tasks that have
\* started compute blocked: one of them can take its next step (and so,
\* under fair scheduling, each acquires the lock, finishes compute and
\* releases the lock).
C8_SomePendingTaskCanStep ==
  (/\ \E t \in Tasks : InCompute(t)
   /\ \A t \in Tasks : ~EngineFailed(result[t]))
  => \E t \in Tasks : InCompute(t) /\ ENABLED Compute(t)

\* The binding of a key (bytes) in the store at a path, as an Option.
Stored(d, path, k) == IF k \in DOMAIN d[path].kv THEN <<d[path].kv[k]>> ELSE <<>>

\* Every key that occurs in a store.
StoredKeys(d) == UNION {DOMAIN d[p].kv : p \in Paths}

\* C9: the steps of a set_item(h, k, v) or remove_item(h, k) change at most
\* the binding of k in h's store: every other key of h, every other store,
\* the Registry's handles and the handle counter stay as they are.
C9_WritesTouchOneBinding ==
  [][\A t \in Tasks :
       (task[t].kind \in {"set_item", "remove_item"} /\ pc'[t] # pc[t])
       => /\ DOMAIN DATABASE_INSTANCES' = DOMAIN DATABASE_INSTANCES
          /\ DB_ID' = DB_ID
          /\ \A p \in Paths :
               /\ disk'[p].exists = disk[p].exists
               /\ \A k \in StoredKeys(disk) \cup StoredKeys(disk') :
                    Stored(disk', p, k) # Stored(disk, p, k)
                    => /\ task[t].db_id \in DOMAIN DATABASE_INSTANCES
                       /\ p = Path(t)
                       /\ k = as_bytes(task[t].key)]_vars

\* C9 witness: two set_item tasks on different live handles are both past
\* their lookup or done, one has written, and the two stores differ.
C9_TwoWritersTwoStores ==
  \E t, u \in Tasks :
    /\ t # u
    /\ task[t].kind = "set_item" /\ task[u].kind = "set_item"
    /\ task[t].db_id # task[u].db_id
    /\ pc[t] = "done" /\ result[t] = Ok(<<>>)
    /\ pc[u] \in {"lock", "get", "call"}
    /\ {task[t].db_id, task[u].db_id} \subseteq DOMAIN DATABASE_INSTANCES
    /\ disk[Path(t)].kv # disk[Path(u)].kv

\* C10: a connect whose path the engine cannot open (held by an open
\* session, or missing with create_if_missing false) completes with an
\* EngineOpenFailure error; the process keeps running and the Registry lock
\* stays usable for the operations that follow.
C10_OpenFailureIsAnError ==
  [][\A t \in Tasks :
       (task[t].kind = "connect" /\ pc[t] = "open" /\ pc'[t] # "open"
          /\ DB_open_fails(task[t].path, task[t].opts))
       => /\ result'[t] = Err("EngineOpenFailure")
          /\ process' = "running"
          /\ ~mutex'.poisoned]_vars

\* C11: when the engine reports an I/O failure during the engine call of a
\* get_item, set_item, get_keys or remove_item on a live handle, the
\* operation completes with an error returned to the caller: the process
\* keeps running and the Registry lock is released unpoisoned, so that later
\* operations can complete.
C11_IoFailureIsAnError ==
  [][\A t \in Tasks :
       (/\ task[t].kind \in {"get_item", "set_item", "get_keys", "remove_item"}
        /\ pc[t] = "call" /\ pc'[t] # "call"
        /\ EngineFailed(result'[t]))
       => /\ result'[t].kind = "err"
          /\ pc'[t] = "return"
          /\ process' = "running"
          /\ ~mutex'.poisoned]_vars

C13_CancelOnlyBeforeCompute ==
  [][\A t \in Tasks :
       /\ (pc[t] = "queued" /\ result'[t].kind = "cancelled")
          => /\ pc'[t] = "done"
             /\ UNCHANGED <<DATABASE_INSTANCES, DB_ID, mutex, disk, process>>
       /\ result[t].kind = "cancelled"
          => pc[t] = "done" /\ pc'[t] \in {"done", "idle"}
       /\ (pc[t] # "queued" /\ ~task[t].signal /\ task'[t].signal)
          => UNCHANGED <<pc, result, DATABASE_INSTANCES, DB_ID, mutex, disk,
                         process>>
       /\ (task[t].signal /\ InCompute(t))
          => /\ ENABLED Compute(t)
             /\ result'[t].kind # "cancelled"
       /\ (task[t].signal /\ pc[t] \in {"return", "done"} /\ pc'[t] # pc[t])
          => UNCHANGED <<DATABASE_INSTANCES, disk>>]_vars

\* C13 witness: the abort signal of a set_item fired during its compute
\* phase, and its write is in the store as compute is about to return.
C13_SignalledWriteStays ==
  \E t \in Tasks :
    /\ task[t].kind = "set_item" /\ task[t].signal
    /\ pc[t] = "return" /\ result[t] = Ok(<<>>)
    /\ DB_get(disk[Path(t)].kv, as_bytes(task[t].key)) = <<as_bytes(task[t].value)>>

\* The positions of compute between lock() and the drop of the guard.
Guarded == {"insert", "get", "call", "return", "remove"}

\* Every task inside a guarded section is the holder of the lock.
HoldersAreInside(p, m) == \A t \in Tasks : p[t] \in Guarded => m.holder = t

\* C14: mutual exclusion: at most one task is between its lock() and the drop
\* of its guard, and it is the holder of the Registry lock; the Registry
\* changes only in a step of the holder; and a get_item, set_item, get_keys,
\* remove_item or close keeps the lock from its handle lookup through its
\* engine call, so at most one task is at an engine call under the lock.
C14_OneHolderAtATime ==
  [][/\ HoldersAreInside(pc, mutex) /\ HoldersAreInside(pc', mutex')
     /\ Cardinality({t \in Tasks : pc'[t] \in Guarded}) <= 1
     /\ DATABASE_INSTANCES' # DATABASE_INSTANCES
        => \E t \in Tasks :
             mutex.holder = t /\ pc[t] \in {"insert", "remove"} /\ pc'[t] # pc[t]
     /\ \A t \in Tasks :
          (task[t].kind # "connect" /\ pc[t] \in {"get", "call"} /\ pc'[t] # pc[t])
          => /\ mutex.holder = t
             /\ pc'[t] \in {"call", "return", "remove"} => mutex'.holder = t
             /\ \A u \in Tasks \ {t} : pc[u] \notin Guarded]_vars

\* C14 witness: a get_keys is at its scan of one store while a set_item on
\* another live handle waits for the lock.
C14_WaitsBehindOtherHandle ==
  \E t, u \in Tasks :
    /\ task[t].kind = "get_keys" /\ pc[t] = "call"
    /\ task[u].kind = "set_item" /\ pc[u] = "lock"
    /\ task[t].db_id # task[u].db_id
    /\ {task[t].db_id, task[u].db_id} \subseteq DOMAIN DATABASE_INSTANCES
    /\ ~ENABLED Compute(u)

\* The handles of the Registry.
Handles(dbs) == DOMAIN dbs

\* C15: the Registry's handle set grows only in the step that completes a
\* connect, by exactly the handle that connect returns, and shrinks only in
\* the step that completes a close, by exactly the handle the close was
\* given; no step of a get_item, set_item, get_keys or remove_item, nor a
\* failing step of any task, changes it.
C15_OnlyConnectAndCloseChangeHandles ==
  [][LET D == Handles(DATABASE_INSTANCES)
         E == Handles(DATABASE_INSTANCES')
     IN /\ \A t \in Tasks :
             (/\ pc'[t] # pc[t]
              /\ \/ task[t].kind \in {"get_item", "set_item", "get_keys", "remove_item"}
                 \/ result'[t].kind # "ok")
             => E = D
        /\ E # D
           => \E t \in Tasks :
                /\ pc'[t] = "done" /\ pc[t] # "done"
                /\ \/ /\ task[t].kind = "connect"
                      /\ result'[t].kind = "ok"
                      /\ result'[t].val[1] \notin D
                      /\ E = D \cup {result'[t].val[1]}
                   \/ /\ task[t].kind = "close"
                      /\ result'[t] = Ok(<<>>)
                      /\ task[t].db_id \in D
                      /\ E = D \ {task[t].db_id}
        /\ \A t \in Tasks :
             (pc'[t] = "done" /\ pc[t] # "done" /\ result'[t].kind = "ok")
             => /\ task[t].kind = "connect" => E = D \cup {result'[t].val[1]}
                /\ task[t].kind = "close" => E = D \ {task[t].db_id}]_vars

\* C15 witness: with one handle closed and the other live, a remove_item on
\* the live handle has failed, and the Registry holds that handle alone.
C15_FailedWriteBesideClosedHandle ==
  \E t \in Tasks :
    /\ task[t].kind = "remove_item" /\ pc[t] = "done"
    /\ result[t].kind = "panic" /\ result[t].site = "db.delete"
    /\ Closed = {0}
    /\ Handles(DATABASE_INSTANCES) = {1}
    /\ task[t].db_id = 1

\* What a store holds after the writes w (key -> value, as Strings) took
\* effect one after another: the bytes of each key bound to those of its value.
StoreOf(w) ==
  [b \in {as_bytes(k) : k \in DOMAIN w} |->
     as_bytes(w[CHOOSE k \in DOMAIN w : as_bytes(k) = b])]

C17_UniqueAcrossWrap ==
  [][\A t \in Tasks :
       (task[t].kind = "connect" /\ pc[t] = "insert" /\ pc'[t] = "done")
       => /\ db_id[t] \notin DOMAIN DATABASE_INSTANCES
          /\ \A h \in DOMAIN DATABASE_INSTANCES :
               DATABASE_INSTANCES'[h] = DATABASE_INSTANCES[h]]_vars

\* The lock can no longer be acquired: it is poisoned, or the process is gone.
LockLost(m, p) == m.poisoned \/ p = "aborted"

\* C18: a panic of a handle-taking compute (missing handle, failed put or
\* delete, value bytes that are not UTF-8) happens while the task holds the
\* Registry lock and leaves the lock poisoned, unless the panic ends the
\* process; from then on the lock stays lost, every lock() of every
\* operation, connect's included, panics, and no operation completes
\* successfully or changes the Registry or the content of a store.
C18_PanicPoisonsTheLock ==
  [][/\ \A t \in Tasks :
          (/\ pc'[t] # pc[t] /\ result'[t].kind = "panic"
           /\ result'[t].site \in {"dbs.get", "db.put", "db.delete", "from_utf8"})
          => /\ mutex.holder = t
             /\ task[t].kind # "connect"
             /\ LockLost(mutex', process')
             /\ process' = "running" => mutex' = [holder |-> 0, poisoned |-> TRUE]
     /\ LockLost(mutex, process)
        => /\ LockLost(mutex', process')
           /\ mutex'.holder = mutex.holder
           /\ DATABASE_INSTANCES' = DATABASE_INSTANCES
           /\ \A p \in Paths : disk'[p].kv = disk[p].kv
           /\ \A t \in Tasks :
                /\ result'[t].kind = "ok" => result'[t] = result[t]
                /\ (pc[t] = "lock" /\ pc'[t] # "lock")
                   => result'[t].kind = "panic" /\ result'[t].site = "lock"]_vars

\* C18 witness: after a panic under the lock, a connect that had opened its
\* store and drawn its handle failed at lock(), and nothing was inserted.
C18_ConnectFailsOnPoisonedLock ==
  \E t \in Tasks :
    /\ mutex.poisoned /\ process = "running"
    /\ task[t].kind = "connect" /\ pc[t] = "done"
    /\ result[t].kind = "panic" /\ result[t].site = "lock"
    /\ disk[task[t].path].exists
    /\ Len(issued) > Cardinality(DOMAIN DATABASE_INSTANCES) + Cardinality(Closed)

\* The handles the completed connects have returned.
ReturnedSet == {Returned[i] : i \in 1..Len(Returned)}

\* Every handle below a returned one was returned too, or is held by a
\* connect of the running process that has yet to insert it.
NoGaps(ret, p, d, k, proc) ==
  \A h \in ret : \A g \in 0..(h - 1) :
    \/ g \in ret
    \/ /\ proc = "running"
       /\ \E t \in Tasks :
            k[t].kind = "connect" /\ p[t] \in {"lock", "insert"} /\ d[t] = g

\* C19: a connect whose open fails draws no handle and inserts nothing; the
\* handles the successful connects return are 0, 1, 2, ... without gaps; a
\* handle is in the Registry when it is returned, and it maps to the
\* Instance its own connect opened, whatever the order of the inserts.
C19_HandlesWithoutGaps ==
  [][/\ \A t \in Tasks :
          (task[t].kind = "connect" /\ pc[t] = "open" /\ result'[t].kind = "panic")
          => UNCHANGED <<DB_ID, issued, DATABASE_INSTANCES>>
     /\ \A t \in Tasks :
          (task[t].kind = "connect" /\ pc'[t] = "done" /\ pc[t] # "done"
             /\ result'[t].kind = "ok")
          => LET h == result'[t].val[1]
             IN /\ h \in DOMAIN DATABASE_INSTANCES'
                /\ DATABASE_INSTANCES'[h].filepath = task[t].path
                /\ DATABASE_INSTANCES'[h].db_opts = task[t].opts
     /\ NoGaps(ReturnedSet', pc', db_id', task', process')]_vars

====
